---- MODULE Spec2Model ----
(***************************************************************************)
(* Model of the Volatility "autoruns" plugin (src/autoruns.py): the path   *)
(* normalizer, the process inventory and PID correlator, and the registry  *)
(* extractors driven by calculate().                                       *)
(*                                                                         *)
(* Python strings are sequences of one-character strings, so that lower(), *)
(* replace(), split() and the `in` substring test are computed character   *)
(* by character.  The NUL character is the token NUL.  Python's None is    *)
(* the one-element sequence None, which is no character sequence.          *)
(***************************************************************************)
EXTENDS Integers, Sequences, FiniteSets, Bags, TLC

VARIABLES
    pc,                     \* position of the run
    raised,                 \* the exception that ended the run, or "none"
    path,                   \* sanitize_paths: the argument of the first call
    outs,                   \* sanitize_paths: the values returned so far
    tasks,                  \* the snapshot's process list (win32.tasks.pslist)
    process_dict,           \* self.process_dict: pid -> (task, modules)
    module,                 \* find_pids_for_imagepath: its argument
    pids,                   \* find_pids_for_imagepath: the value returned
    key,                    \* parse_autoruns_key: its argument
    results,                \* parse_autoruns_key: the value returned
    config,                 \* self._config: VERBOSE, HIVE_OFFSET, ASEP_TYPE
    hive_offsets,           \* get_autoruns: the offsets HiveList.calculate gives
    cmhives,                \* the snapshot: offset -> _CMHIVE and its root key
    todo,                   \* get_autoruns: set(hive_offsets) still to iterate (bag)
    hives,                  \* get_autoruns: name -> (key path, time) -> results
    ntuser_hive_roots,      \* get_autoruns: roots of the NTUSER.DAT hives
    software_hive_root,     \* get_autoruns: root of the last software hive
    system_hive_root,       \* get_autoruns: root of the last system hive
    opened,                 \* the offsets a HiveAddressSpace was built for (bag)
    searched,               \* the (offset, key list) pairs searched (bag)
    autoruns,               \* self.autoruns
    reg,                    \* the snapshot: what self.regapi reads
    services,               \* self.services
    appinit_dlls,           \* self.appinit_dlls
    winlogon,               \* self.winlogon
    winlogon_registrations  \* self.winlogon_registrations

pathVars == <<path, outs>>
pidVars  == <<tasks, process_dict, module, pids, key, results>>
runVars  == <<hive_offsets, cmhives, todo, hives, ntuser_hive_roots,
              software_hive_root, system_hive_root, opened, searched, autoruns>>
regVars  == <<reg, services, appinit_dlls, winlogon, winlogon_registrations>>

vars == <<pc, raised, config, pathVars, pidVars, runVars, regVars>>

----------------------------------------------------------------------------
(* Strings *)

NUL  == "NUL"
None == <<"None">>

UpperChars == <<"A", "B", "C", "D", "E", "F", "G", "H", "I", "J", "K", "L", "M",
                "N", "O", "P", "Q", "R", "S", "T", "U", "V", "W", "X", "Y", "Z">>
LowerChars == <<"a", "b", "c", "d", "e", "f", "g", "h", "i", "j", "k", "l", "m",
                "n", "o", "p", "q", "r", "s", "t", "u", "v", "w", "x", "y", "z">>

\* str.lower() on one character
ToLower == [c \in {UpperChars[i] : i \in 1..Len(UpperChars)} |->
               LowerChars[CHOOSE i \in 1..Len(UpperChars) : UpperChars[i] = c]]

LowerChar(c) == IF c \in DOMAIN ToLower THEN ToLower[c] ELSE c

\* str.lower()
Lower(s) == [i \in 1..Len(s) |-> LowerChar(s[i])]

\* `t in s` on strings
Contains(s, t) ==
    \/ t = <<>>
    \/ \E i \in 1..(Len(s) - Len(t) + 1) :
          s[i] = t[1] /\ SubSeq(s, i, i + Len(t) - 1) = t

\* s.replace(old, ''), old non-empty: the occurrences of old are found from
\* the left, without overlap, in one pass; what a removal joins is not rescanned
RECURSIVE ReplaceScan(_, _)
ReplaceScan(s, old) ==
    IF Len(s) < Len(old) THEN s
    ELSE IF s[1] = old[1] /\ SubSeq(s, 1, Len(old)) = old
         THEN ReplaceScan(SubSeq(s, Len(old) + 1, Len(s)), old)
         ELSE <<s[1]>> \o ReplaceScan(Tail(s), old)

Replace(s, old) == IF Contains(s, old) THEN ReplaceScan(s, old) ELSE s

\* s.split(sep): the fields between the occurrences of the character sep
RECURSIVE Split(_, _)
Split(s, sep) ==
    IF \A i \in 1..Len(s) : s[i] # sep THEN <<s>>
    ELSE LET i == CHOOSE j \in 1..Len(s) :
                      s[j] = sep /\ \A k \in 1..(j - 1) : s[k] # sep
         IN  <<SubSeq(s, 1, i - 1)>> \o Split(SubSeq(s, i + 1, Len(s)), sep)

\* s.split(sep)[-1]
LastField(s, sep) == LET f == Split(s, sep) IN f[Len(f)]

\* x or default: an absent or empty string gives the default
OrElse(x, default) == IF x = None \/ x = <<>> THEN default ELSE x

----------------------------------------------------------------------------
(* sanitize_paths *)

TokSystemRootPct == <<"%", "s", "y", "s", "t", "e", "m", "r", "o", "o", "t", "%", "\\">>
TokSystemRoot    == <<"\\", "s", "y", "s", "t", "e", "m", "r", "o", "o", "t", "\\">>
TokWindir        == <<"%", "w", "i", "n", "d", "i", "r", "%">>
TokDevice        == <<"\\", "?", "?", "\\">>

\* The body of sanitize_paths on a string
SanitizeString(p) ==
    LET p1 == Lower(p)
        p2 == Replace(p1, TokSystemRootPct)
        p3 == Replace(p2, TokSystemRoot)
        p4 == Replace(p3, TokWindir)
        p5 == Replace(p4, TokDevice)
        p6 == Replace(p5, <<NUL>>)
        p7 == Replace(Replace(p6, <<"\"">>), <<"'">>)
    IN  p7

\* sanitize_paths(path): None has no lower(), the call raises AttributeError
sanitize_paths(p) ==
    IF p = None THEN [exc |-> "AttributeError", val |-> None]
    ELSE [exc |-> "none", val |-> SanitizeString(p)]

----------------------------------------------------------------------------
(* The process inventory and the PID correlator *)

NoCmdline == <<"[", "n", "o", " ", "c", "m", "d", "l", "i", "n", "e", "]">>
NoDllname == <<"[", "n", "o", " ", "d", "l", "l", "n", "a", "m", "e", "]">>

\* get_dll_list: the tasks with a Peb, each with its loaded modules
get_dll_list(ts) == [pid \in {p \in DOMAIN ts : ts[p].Peb} |-> ts[pid]]

\* The command-line test of find_pids_for_imagepath, m the sanitized module
CmdlineMatches(t, m) ==
    /\ t.Peb
    /\ Contains(SanitizeString(Lower(OrElse(t.CommandLine, NoCmdline))), Lower(m))

\* The loaded-module test of find_pids_for_imagepath, m the sanitized module
DllMatches(t, m) ==
    \E i \in 1..Len(t.modules) :
        Contains(SanitizeString(Lower(OrElse(t.modules[i], NoDllname))), Lower(m))

\* find_pids_for_imagepath(module): list(set(pids)) is the set of the pids
find_pids_for_imagepath(pd, mod) ==
    LET s == sanitize_paths(mod)
    IN  IF s.exc # "none" THEN [exc |-> s.exc, val |-> {}]
        ELSE [exc |-> "none",
              val |-> IF s.val = <<>> THEN {}
                      ELSE {pid \in DOMAIN pd :
                               CmdlineMatches(pd[pid], s.val) \/ DllMatches(pd[pid], s.val)}]

----------------------------------------------------------------------------
(* Registry keys: [Name, LastWriteTime, values, subkeys]; a value is        *)
(* [Name, data], its data the string value_data gives for a REG_SZ value   *)
(* or the decimal digits of a REG_DWORD; the names of a key's values are   *)
(* distinct.                                                               *)

\* dict_for_key(key): value name -> str(data)
dict_for_key(k) ==
    [n \in {v.Name : v \in k.values} |->
        (CHOOSE v \in k.values : v.Name = n).data]

\* d.get(name, default)
Get(d, name, default) == IF name \in DOMAIN d THEN d[name] ELSE default

\* s.replace('\x00', '')
StripNul(s) == Replace(s, <<NUL>>)

\* parse_autoruns_key with the NUL-only test left out of the filter
parse_autoruns_key_KeepsNul(pd, k) ==
    LET valdict == dict_for_key(k)
        kept == {v \in DOMAIN valdict : valdict[v] \notin {<<>>, None}}
    IN  SetToBag({<<v, StripNul(valdict[v]), find_pids_for_imagepath(pd, valdict[v]).val>> :
                     v \in kept})

\* parse_autoruns_key(key): the list of (name, data, pids), one per value of
\* the dict that passes the test; the order is the dict's and is not modelled
parse_autoruns_key(pd, k) ==
    LET valdict == dict_for_key(k)
        kept == {v \in DOMAIN valdict : valdict[v] \notin {<<>>, None, <<NUL>>}}
    IN  SetToBag({<<v, StripNul(valdict[v]), find_pids_for_imagepath(pd, valdict[v]).val>> :
                     v \in kept})

----------------------------------------------------------------------------
(* get_autoruns: the Run keys of the NTUSER.DAT and software hives *)

SOFTWARE_RUN_KEYS ==
    << "Microsoft\\Windows\\CurrentVersion\\Run",
       "Microsoft\\Windows\\CurrentVersion\\RunOnce",
       "Microsoft\\Windows\\CurrentVersion\\RunServices",
       "Microsoft\\Windows\\CurrentVersion\\Policies\\Explorer\\Run",
       "Wow6432Node\\Microsoft\\Windows\\CurrentVersion\\Run",
       "Wow6432Node\\Microsoft\\Windows\\CurrentVersion\\RunOnce",
       "Wow6432Node\\Microsoft\\Windows\\CurrentVersion\\Policies\\Explorer\\Run",
       "Microsoft\\Windows NT\\CurrentVersion\\Terminal Server\\Install\\Software\\Microsoft\\Windows\\CurrentVersion\\Run",
       "Microsoft\\Windows NT\\CurrentVersion\\Terminal Server\\Install\\Software\\Microsoft\\Windows\\CurrentVersion\\RunOnce" >>

NTUSER_RUN_KEYS ==
    << "Software\\Microsoft\\Windows\\CurrentVersion\\Run",
       "Software\\Microsoft\\Windows\\CurrentVersion\\RunOnce",
       "Software\\Microsoft\\Windows\\CurrentVersion\\RunServices",
       "Software\\Microsoft\\Windows\\CurrentVersion\\RunServicesOnce",
       "Software\\Microsoft\\Windows\\CurrentVersion\\Policies\\Explorer\\Run",
       "Software\\Microsoft\\Windows NT\\CurrentVersion\\Terminal Server\\Install\\Software\\Microsoft\\Windows\\CurrentVersion\\Run",
       "Software\\Microsoft\\Windows NT\\CurrentVersion\\Terminal Server\\Install\\Software\\Microsoft\\Windows\\CurrentVersion\\RunOnce",
       "Software\\Microsoft\\Windows NT\\CurrentVersion\\Run",
       "Software\\Wow6432Node\\Microsoft\\Windows\\CurrentVersion\\Policies\\Explorer\\Run",
       "Software\\Wow6432Node\\Microsoft\\Windows\\CurrentVersion\\Run" >>

NoName      == <<"[", "n", "o", " ", "n", "a", "m", "e", "]">>
StrNtuserDat == <<"n", "t", "u", "s", "e", "r", ".", "d", "a", "t">>
StrSoftware  == <<"s", "o", "f", "t", "w", "a", "r", "e">>
StrSystem    == <<"s", "y", "s", "t", "e", "m">>

\* hive_name(hive): the first of the three names that is not empty; a name
\* the profile's _CMHIVE lacks (None here) raises AttributeError when it is
\* reached, which gives "[no name]"
hive_name(h) ==
    IF h.FileFullPath = None THEN NoName
    ELSE IF h.FileFullPath # <<>> THEN h.FileFullPath
    ELSE IF h.FileUserName = None THEN NoName
    ELSE IF h.FileUserName # <<>> THEN h.FileUserName
    ELSE IF h.HiveRootPath = None THEN NoName
    ELSE IF h.HiveRootPath # <<>> THEN h.HiveRootPath
    ELSE NoName

\* name.split('\\')[-1].lower()
HiveComponent(name) == Lower(LastField(name, "\\"))

\* Classify with the software test first
Classify_SoftwareFirst(name) ==
    IF Contains(HiveComponent(name), StrSoftware) THEN "SoftwareHive"
    ELSE IF Contains(HiveComponent(name), StrNtuserDat) THEN "NtUserHive"
    ELSE IF Contains(HiveComponent(name), StrSystem) THEN "SystemHive"
    ELSE "Irrelevant"

\* The if/elif chain of get_autoruns on the hive's name
Classify(name) ==
    IF Contains(HiveComponent(name), StrNtuserDat) THEN "NtUserHive"
    ELSE IF Contains(HiveComponent(name), StrSoftware) THEN "SoftwareHive"
    ELSE IF Contains(HiveComponent(name), StrSystem) THEN "SystemHive"
    ELSE "Irrelevant"

\* The key list the chain selects, by name; "none" when the loop continues
KeysFor(class) ==
    IF class = "NtUserHive" THEN "NTUSER_RUN_KEYS"
    ELSE IF class = "SoftwareHive" THEN "SOFTWARE_RUN_KEYS"
    ELSE "none"

KeyList(listname) ==
    IF listname = "NTUSER_RUN_KEYS" THEN NTUSER_RUN_KEYS
    ELSE IF listname = "SOFTWARE_RUN_KEYS" THEN SOFTWARE_RUN_KEYS
    ELSE <<>>

\* rawreg.get_root(h): [valid, keys], keys the hive's keys by path; a hive
\* whose root cannot be found gives a NoneObject, which is false in `if`
NoneRoot == [valid |-> FALSE, keys |-> <<>>]

\* rawreg.open_key(root, full_key.split('\\')): a path the hive lacks gives a
\* NoneObject, a key with no values
NoneKey == [Name |-> "", LastWriteTime |-> 0, values |-> {}, subkeys |-> {}]
open_key(root, full_key) ==
    IF full_key \in DOMAIN root.keys THEN root.keys[full_key] ELSE NoneKey

\* The roots get_autoruns keeps are named by their hive's offset; NoRoot is
\* the None they start with.  NoOffset is HIVE_OFFSET when the option is not
\* given (None and 0 are both false in `if`).
NoRoot   == 0
NoOffset == 0

\* d[k] = v on a dict
Put(d, k, v) == [x \in DOMAIN d \cup {k} |-> IF x = k THEN v ELSE d[x]]

\* The loop `for full_key in keys` of get_autoruns from the i-th key on:
\* hv is the dict hives
RECURSIVE SearchKeys(_, _, _, _, _, _)
SearchKeys(hv, name, root, pd, keys, i) ==
    IF i > Len(keys) THEN hv
    ELSE LET k   == open_key(root, keys[i])
             res == parse_autoruns_key(pd, k)
             h   == Get(hv, name, <<>>)
             hv2 == IF BagCardinality(res) > 0
                    THEN Put(hv, name, Put(h, <<keys[i], k.LastWriteTime>>, res))
                    ELSE hv
         IN  SearchKeys(hv2, name, root, pd, keys, i + 1)

\* The offsets of the list as they are, an offset once for each of its entries
OffsetList(offs) == BagOfAll(LAMBDA i : offs[i], SetToBag(1..Len(offs)))

\* set(hive_offsets), as the bag of what the loop has to iterate: each
\* offset of the list once
OffsetSet(offs) == SetToBag({offs[i] : i \in 1..Len(offs)})

\* asep_list of calculate
AsepList(cfg) ==
    IF cfg.ASEP_TYPE = None THEN {"autoruns", "services", "appinit", "winlogon"}
    ELSE {cfg.ASEP_TYPE[i] : i \in 1..Len(cfg.ASEP_TYPE)}

----------------------------------------------------------------------------
(* Services *)

service_types ==
    (1 :> "Kernel driver") @@ (2 :> "File system driver")
    @@ (4 :> "Argumetns for adapter") @@ (8 :> "File system driver")
    @@ (16 :> "Own_Process") @@ (32 :> "Share_Process") @@ (256 :> "Interactive")
    @@ (272 :> "Interactive") @@ (288 :> "Share_process Interactive")
    @@ (-1 :> "Unknown")

service_startup ==
    (0 :> "Boot Start") @@ (1 :> "System Start") @@ (2 :> "Auto Start")
    @@ (3 :> "Manual") @@ (4 :> "Disabled") @@ (-1 :> "Unknown")

StrUnknown  == <<"U", "n", "k", "n", "o", "w", "n">>
StrSvchostK == <<"s", "v", "c", "h", "o", "s", "t", ".", "e", "x", "e", " ", "-", "k">>
StrSystem32 == <<"s", "y", "s", "t", "e", "m", "3", "2">>
MinusOne    == <<"-", "1">>

DigitValue ==
    ("0" :> 0) @@ ("1" :> 1) @@ ("2" :> 2) @@ ("3" :> 3) @@ ("4" :> 4)
    @@ ("5" :> 5) @@ ("6" :> 6) @@ ("7" :> 7) @@ ("8" :> 8) @@ ("9" :> 9)

\* str.strip() of the blanks around a text, as int() does before it reads
RECURSIVE StripBlanks(_)
StripBlanks(s) ==
    IF s = <<>> THEN s
    ELSE IF s[1] = " " THEN StripBlanks(Tail(s))
    ELSE IF s[Len(s)] = " " THEN StripBlanks(SubSeq(s, 1, Len(s) - 1))
    ELSE s

\* The digits of the text of an integer, after the blanks and the sign
Unsigned(s) ==
    LET t == StripBlanks(s)
    IN  IF t # <<>> /\ t[1] \in {"-", "+"} THEN Tail(t) ELSE t

\* The texts int() accepts: decimal digits after an optional sign
IsIntText(s) ==
    Unsigned(s) # <<>> /\ \A i \in 1..Len(Unsigned(s)) : Unsigned(s)[i] \in DOMAIN DigitValue

RECURSIVE DigitsValue(_)
DigitsValue(s) ==
    IF s = <<>> THEN 0 ELSE 10 * DigitsValue(SubSeq(s, 1, Len(s) - 1)) + DigitValue[s[Len(s)]]

\* int(x) for the text of a value, or for the default -1 (int(-1) is -1)
int(s) ==
    IF ~IsIntText(s) THEN [exc |-> "ValueError", val |-> 0]
    ELSE [exc |-> "none",
          val |-> IF StripBlanks(s)[1] = "-" THEN 0 - DigitsValue(Unsigned(s))
                  ELSE DigitsValue(Unsigned(s))]

\* The loop over rawreg.subkeys(service_key): the dict and the time of the
\* subkey named Parameters, or None and the service key's time
ParametersOf(k) ==
    IF \E sub \in k.subkeys : sub.Name = "Parameters"
    THEN LET sub == CHOOSE x \in k.subkeys : x.Name = "Parameters"
         IN  [parameters |-> dict_for_key(sub), timestamp |-> sub.LastWriteTime, found |-> TRUE]
    ELSE [parameters |-> <<>>, timestamp |-> k.LastWriteTime, found |-> FALSE]

\* entry of parse_service_key once "svchost.exe -k" is in the image path
EntryOf(parameters) ==
    IF DOMAIN parameters # {} /\ "ServiceDll" \in DOMAIN parameters
    THEN LET main == Get(parameters, "ServiceMain", None)
         IN  StripNul(IF main # None /\ main # <<>>
                      THEN parameters["ServiceDll"] \o <<" ", "(">> \o main \o <<")">>
                      ELSE parameters["ServiceDll"])
    ELSE None

\* The startup kinds with Manual among them
AutoStartKinds_WithManual == {0, 1, 2, 3}

\* The startup kinds parse_service_key keeps
AutoStartKinds == {0, 1, 2}

\* parse_service_key(service_key): the tuple (name, timestamp, display_name,
\* startup, type, image_path, entry, pids), or None
parse_service_key(pd, k) ==
    LET service_dict == dict_for_key(k)
        display_name == StripNul(Get(service_dict, "DisplayName", StrUnknown))
        startup      == int(Get(service_dict, "Start", MinusOne))
        type         == int(Get(service_dict, "Type", MinusOne))
        image_path   == StripNul(Get(service_dict, "ImagePath", StrUnknown))
        svchost      == Contains(image_path, StrSvchostK)
        par          == ParametersOf(k)
        timestamp    == IF svchost THEN par.timestamp ELSE k.LastWriteTime
        entry        == IF svchost THEN EntryOf(par.parameters) ELSE None
        target       == IF entry # None /\ entry # <<>>
                        THEN par.parameters["ServiceDll"] ELSE image_path
    IN  IF startup.exc # "none" THEN [exc |-> startup.exc, val |-> None]
        ELSE IF type.exc # "none" THEN [exc |-> type.exc, val |-> None]
        ELSE IF startup.val \notin AutoStartKinds THEN [exc |-> "none", val |-> None]
        ELSE IF type.val \notin DOMAIN service_types THEN [exc |-> "KeyError", val |-> None]
        ELSE [exc |-> "none",
              val |-> <<k.Name, timestamp, display_name, service_startup[startup.val],
                        service_types[type.val], image_path, entry,
                        find_pids_for_imagepath(pd, target).val>>]

\* The test of get_services on a parsed service
ServiceShown(cfg, service) ==
    \/ cfg.VERBOSE
    \/ ~Contains(Lower(service[6]), StrSystem32) /\ service[6] # StrUnknown

\* The loop of get_services from the i-th subkey of <ControlSet>\Services on;
\* acc is the list services
RECURSIVE ServicesFrom(_, _, _, _, _)
ServicesFrom(pd, cfg, keys, i, acc) ==
    IF i > Len(keys) THEN [exc |-> "none", val |-> acc]
    ELSE LET service == parse_service_key(pd, keys[i])
         IN  IF service.exc # "none" THEN [exc |-> service.exc, val |-> acc]
             ELSE ServicesFrom(pd, cfg, keys, i + 1,
                               IF service.val # None /\ ServiceShown(cfg, service.val)
                               THEN Append(acc, service.val) ELSE acc)

\* get_services()
get_services(pd, cfg, keys) == ServicesFrom(pd, cfg, keys, 1, <<>>)

----------------------------------------------------------------------------
(* AppInit_DLLs and Winlogon *)

\* get_appinit_dlls(): reg_get_value gives None for a value that is not
\* there, and None has no replace(); split(' ') always gives a field, so the
\* list is never empty and the else branch (return None) is never taken
get_appinit_dlls(appinit_values) ==
    IF appinit_values = None THEN [exc |-> "AttributeError", val |-> <<>>]
    ELSE LET dlls == Split(StripNul(appinit_values), " ")
         IN  [exc |-> "none", val |-> IF Len(dlls) > 0 THEN dlls ELSE None]

WINLOGON_NOTIFICATION_EVENTS ==
    << <<"L", "o", "c", "k">>,
       <<"L", "o", "g", "o", "f", "f">>,
       <<"L", "o", "g", "o", "n">>,
       <<"S", "h", "u", "t", "d", "o", "w", "n">>,
       <<"S", "t", "a", "r", "t", "S", "c", "r", "e", "e", "n", "S", "a", "v", "e", "r">>,
       <<"S", "t", "a", "r", "t", "S", "h", "e", "l", "l">>,
       <<"S", "t", "a", "r", "t", "u", "p">>,
       <<"S", "t", "o", "p", "S", "c", "r", "e", "e", "n", "S", "a", "v", "e", "r">>,
       <<"U", "n", "l", "o", "c", "k">> >>

WINLOGON_REGISTRATION_KNOWN_DLLS ==
    { <<"c", "r", "y", "p", "t", "3", "2", ".", "d", "l", "l">>,
      <<"c", "r", "y", "p", "t", "n", "e", "t", ".", "d", "l", "l">>,
      <<"c", "s", "c", "d", "l", "l", ".", "d", "l", "l">>,
      <<"d", "i", "m", "s", "n", "t", "f", "y", ".", "d", "l", "l">>,
      <<"s", "c", "l", "g", "n", "t", "f", "y", ".", "d", "l", "l">>,
      <<"w", "l", "n", "o", "t", "i", "f", "y", ".", "d", "l", "l">>,
      <<"w", "z", "c", "d", "l", "g", ".", "d", "l", "l">> }

\* value name -> the default the plugin shows beside it
WINLOGON_COMMON_VALUES ==
    ("Userinit" :> "userinit.exe")
    @@ ("VmApplet" :> "rundll32 shell32,Control_RunDLL \"sysdm.cpl\"")
    @@ ("Shell" :> "Explorer.exe") @@ ("TaskMan" :> "Taskmgr.exe")
    @@ ("System" :> "lsass.exe")

StrDllname == <<"d", "l", "l", "n", "a", "m", "e">>

\* get_winlogon(): one (value, data, timestamp, default, pids) for each of
\* the Winlogon key's values that is a common value; the order is the dict's
get_winlogon(pd, winlogon_key) ==
    LET valdict == dict_for_key(winlogon_key)
    IN  SetToBag({<<value, StripNul(valdict[value]), winlogon_key.LastWriteTime,
                    WINLOGON_COMMON_VALUES[value],
                    find_pids_for_imagepath(pd, valdict[value]).val>> :
                     value \in DOMAIN valdict \cap DOMAIN WINLOGON_COMMON_VALUES})

\* parse_winlogon_registration_key(key): dllname is bound only by a value
\* whose lower-cased name is 'dllname'; without one, reading it raises
\* UnboundLocalError
parse_winlogon_registration_key(pd, k) ==
    LET d      == dict_for_key(k)
        events == SelectSeq([i \in 1..Len(WINLOGON_NOTIFICATION_EVENTS) |->
                                <<WINLOGON_NOTIFICATION_EVENTS[i],
                                  StripNul(Get(d, WINLOGON_NOTIFICATION_EVENTS[i], <<>>))>>],
                            LAMBDA e : e[1] \in DOMAIN d)
        named  == {dictkey \in DOMAIN d : Lower(dictkey) = StrDllname}
    IN  IF named = {} THEN [exc |-> "UnboundLocalError", val |-> None]
        ELSE LET dllname == d[CHOOSE dictkey \in named : TRUE]
             IN  [exc |-> "none",
                  val |-> <<StripNul(dllname), events, k.LastWriteTime,
                            find_pids_for_imagepath(pd, dllname).val>>]

\* The test of get_winlogon_registrations on a parsed registration
RegistrationShown(cfg, r) ==
    \/ cfg.VERBOSE
    \/ LastField(r[1], "\\") \notin WINLOGON_REGISTRATION_KNOWN_DLLS

\* The loop of get_winlogon_registrations from the i-th subkey of
\* Winlogon\Notify on; acc is the list winlogon_registrations
RECURSIVE RegistrationsFrom(_, _, _, _, _)
RegistrationsFrom(pd, cfg, keys, i, acc) ==
    IF i > Len(keys) THEN [exc |-> "none", val |-> acc]
    ELSE LET r == parse_winlogon_registration_key(pd, keys[i])
         IN  IF r.exc # "none" THEN [exc |-> r.exc, val |-> acc]
             ELSE RegistrationsFrom(pd, cfg, keys, i + 1,
                                    IF RegistrationShown(cfg, r.val)
                                    THEN Append(acc, r.val) ELSE acc)

\* get_winlogon_registrations()
get_winlogon_registrations(pd, cfg, keys) == RegistrationsFrom(pd, cfg, keys, 1, <<>>)

----------------------------------------------------------------------------
(* Inputs of sanitize_paths: concatenations of at most MaxPieces pieces *)

MaxPieces == 4

Pieces ==
    { <<"\\", "?">>, <<"?", "\\">>,
      <<"%", "w", "i", "n">>, <<"d", "i", "r", "%">>,
      <<"%", "S", "y", "s", "t", "e", "m">>, <<"R", "o", "o", "t", "%", "\\">>,
      <<"\\", "s", "y", "s", "t", "e", "m">>, <<"r", "o", "o", "t", "\\">>,
      <<"\"">>, <<"'">>, <<NUL>>, <<"A">> }

RECURSIVE Concats(_)
Concats(n) ==
    IF n = 0 THEN {<<>>}
    ELSE LET prev == Concats(n - 1)
         IN  prev \cup {p \o q : p \in prev, q \in Pieces}

PathInputs == Concats(MaxPieces)

MaxCalls == 2

\* The variables a specification does not use keep these values
IdlePaths == path = <<>> /\ outs = <<>>
IdlePids  ==
    /\ tasks = <<>> /\ process_dict = <<>> /\ module = None /\ pids = {}
    /\ key = <<>> /\ results = <<>>
IdleRun   ==
    /\ hive_offsets = <<>> /\ cmhives = <<>> /\ todo = EmptyBag /\ hives = <<>>
    /\ ntuser_hive_roots = <<>> /\ software_hive_root = NoRoot
    /\ system_hive_root = NoRoot /\ opened = <<>> /\ searched = <<>>
    /\ autoruns = <<>>
IdleReg   ==
    /\ reg = <<>> /\ services = <<>> /\ appinit_dlls = <<>> /\ winlogon = <<>>
    /\ winlogon_registrations = <<>>
DefaultConfig == [VERBOSE |-> FALSE, HIVE_OFFSET |-> NoOffset, ASEP_TYPE |-> None]

InitPaths ==
    /\ pc = "paths"
    /\ raised = "none"
    /\ path \in PathInputs
    /\ outs = <<>>
    /\ config = DefaultConfig
    /\ IdlePids /\ IdleRun /\ IdleReg

\* One more call of sanitize_paths, on the value the last call returned
Normalize ==
    /\ pc = "paths"
    /\ Len(outs) < MaxCalls
    /\ outs' = Append(outs, sanitize_paths(IF outs = <<>> THEN path
                                           ELSE outs[Len(outs)]).val)
    /\ UNCHANGED <<pc, raised, config, path, pidVars, runVars, regVars>>

NextPaths == Normalize

SpecPaths == InitPaths /\ [][NextPaths]_vars

\* C2: sanitize_paths is idempotent: a second call on the value the first
\* call returned gives that value back.
C2_Idempotent == Len(outs) = 2 => outs[2] = outs[1]

----------------------------------------------------------------------------
(* The correlator on its own: an inventory, then one call of               *)
(* find_pids_for_imagepath or of parse_autoruns_key                        *)

MaxTasks == 2     \* processes in the snapshot

CmdApp   == <<"C", ":", "\\", "A", "p", "p", "s", "\\", "a", "p", "p", ".", "e", "x", "e",
              " ", "-", "-", "f", "l", "a", "g">>
DllEvil  == <<"\\", "?", "?", "\\", "C", ":", "\\", "W", "i", "n", "d", "o", "w", "s", "\\",
              "e", "v", "i", "l", ".", "d", "l", "l">>
RefQuoted == <<"\"", "c", ":", "\\", "a", "p", "p", "s", "\\", "A", "P", "P", ".", "E", "X", "E", "\"">>
RefEvil   == <<"%", "S", "y", "s", "t", "e", "m", "R", "o", "o", "t", "%", "\\",
               "e", "v", "i", "l", ".", "d", "l", "l", NUL>>
RefCmd    == <<"c", "m", "d">>
RefDll    == <<"d", "l", "l">>
RefOther  == <<"n", "o", "t", "e", "p", "a", "d", ".", "e", "x", "e">>
RefWindir == <<"%", "w", "i", "n", "d", "i", "r", "%">>

PIDs     == {1233 + i : i \in 1..MaxTasks}
CmdLines == {None, CmdApp}

ModuleLists == {<<>>, <<None>>, <<None, DllEvil>>}

\* A task: without a Peb it has no command line and no modules to read
TaskKinds ==
    {[Peb |-> FALSE, CommandLine |-> None, modules |-> <<>>]}
    \cup [Peb : {TRUE}, CommandLine : CmdLines, modules : ModuleLists]

TaskLists == UNION {[P -> TaskKinds] : P \in SUBSET PIDs}

RefPaths == {None, <<>>, <<NUL>>, CmdApp, RefQuoted, RefEvil, RefCmd, RefDll,
             RefOther, RefWindir}

RunValueNames == {"MyApp", "Updater"}
RunValueData  == {<<>>, <<NUL>>, CmdApp, RefQuoted, RefEvil}

\* The sets of values with distinct names among Names and data among Data
ValueSets(Names, Data) ==
    UNION {{{[Name |-> n, data |-> f[n]] : n \in N} : f \in [N -> Data]} :
              N \in SUBSET Names}

RunKeys == [Name : {"Run"}, LastWriteTime : {1}, values : ValueSets(RunValueNames, RunValueData),
            subkeys : {{}}]

InitPids ==
    /\ pc = "init"
    /\ raised = "none"
    /\ tasks \in TaskLists
    /\ process_dict = <<>> /\ module = None /\ pids = {}
    /\ key = <<>> /\ results = <<>>
    /\ config = DefaultConfig
    /\ IdlePaths /\ IdleRun /\ IdleReg

\* get_dll_list()
GetDllList ==
    /\ pc = "init"
    /\ process_dict' = get_dll_list(tasks)
    /\ pc' = "ready"
    /\ UNCHANGED <<raised, config, tasks, module, pids, key, results, pathVars,
                   runVars, regVars>>

\* find_pids_for_imagepath(m)
FindPids ==
    /\ pc = "ready"
    /\ \E m \in RefPaths :
          LET r == find_pids_for_imagepath(process_dict, m)
          IN  /\ module' = m
              /\ pids' = r.val
              /\ raised' = r.exc
    /\ pc' = "found"
    /\ UNCHANGED <<config, tasks, process_dict, key, results, pathVars, runVars, regVars>>

\* parse_autoruns_key(k)
ParseAutorunsKey ==
    /\ pc = "ready"
    /\ \E k \in RunKeys :
          /\ key' = k
          /\ results' = parse_autoruns_key(process_dict, k)
    /\ pc' = "parsed"
    /\ UNCHANGED <<raised, config, tasks, process_dict, module, pids, pathVars,
                   runVars, regVars>>

NextPids == GetDllList \/ FindPids \/ ParseAutorunsKey

SpecPids == InitPids /\ [][NextPids]_vars

\* The normalized form of a string the claims speak of
Norm(s) == sanitize_paths(s).val

\* C1: for a reference whose normalized form is not empty, the PIDs returned
\* are exactly the processes of the inventory whose command line, when there
\* is one, or one of whose loaded-module paths, when the module has one,
\* contains the normalized reference; an absent command line or module path
\* matches nothing.
C1_ExactPids ==
    (pc = "found" /\ module # None /\ Norm(module) # <<>>) =>
        /\ raised = "none"
        /\ pids = {p \in DOMAIN process_dict :
                     \/ /\ process_dict[p].CommandLine # None
                        /\ Contains(Norm(process_dict[p].CommandLine), Norm(module))
                     \/ \E i \in 1..Len(process_dict[p].modules) :
                           /\ process_dict[p].modules[i] # None
                           /\ Contains(Norm(process_dict[p].modules[i]), Norm(module))}

\* C3: an empty or absent reference path gives the empty set and no error.
C3_EmptyOrNullGivesEmpty ==
    (pc = "found" /\ module \in {<<>>, None}) => (raised = "none" /\ pids = {})

\* The values of the parsed key that the Run-Key Extractor must report
Reported(k) == {v \in k.values : v.data \notin {<<>>, <<NUL>>}}

\* C4 as stated: every value of the key whose data is neither empty nor a
\* lone NUL gives exactly one entry, whose target is the normalized data and
\* whose pids are the correlator's for the data.
C4_TargetNormalized ==
    pc = "parsed" =>
        \A v \in Reported(key) :
            CopiesIn(<<v.Name, Norm(v.data),
                       find_pids_for_imagepath(process_dict, v.data).val>>, results) = 1

\* C4 amended: every value of the key whose data is neither empty nor a lone
\* NUL gives exactly one entry, whose target is the data with its NUL
\* characters removed (case, quotes and tokens kept) and whose pids are the
\* correlator's for the data; the other values give no entry.
C4_TargetNulStripped ==
    pc = "parsed" =>
        /\ \A v \in Reported(key) :
              CopiesIn(<<v.Name, StripNul(v.data),
                         find_pids_for_imagepath(process_dict, v.data).val>>, results) = 1
        /\ BagCardinality(results) = Cardinality(Reported(key))
        /\ \A e \in BagToSet(results) : e[3] \subseteq DOMAIN process_dict

\* The scenario of the spec: Run\MyApp = C:\Apps\app.exe --flag, and process
\* 1234 runs that command line
C4_Witness ==
    /\ pc = "parsed"
    /\ [Name |-> "MyApp", data |-> CmdApp] \in key.values
    /\ BagIn(<<"MyApp", CmdApp, {1234}>>, results)

----------------------------------------------------------------------------
(* calculate() with the run keys alone: get_dll_list, then get_autoruns,   *)
(* one action for each hive of the loop over set(hive_offsets)             *)

MaxHiveList == 3    \* entries of the hive list

Offsets == {16, 32}

NameNtUser   == <<"\\", "?", "?", "\\", "C", ":", "\\", "U", "s", "e", "r", "s", "\\",
                  "j", "o", "e", "\\", "N", "T", "U", "S", "E", "R", ".", "D", "A", "T">>
NameSoftware == <<"\\", "S", "y", "s", "t", "e", "m", "R", "o", "o", "t", "\\",
                  "S", "y", "s", "t", "e", "m", "3", "2", "\\", "C", "o", "n", "f", "i", "g", "\\",
                  "S", "O", "F", "T", "W", "A", "R", "E">>
NameSystem   == <<"\\", "S", "y", "s", "t", "e", "m", "R", "o", "o", "t", "\\",
                  "S", "y", "s", "t", "e", "m", "3", "2", "\\", "C", "o", "n", "f", "i", "g", "\\",
                  "S", "Y", "S", "T", "E", "M">>
NameSam      == <<"\\", "S", "y", "s", "t", "e", "m", "R", "o", "o", "t", "\\",
                  "S", "y", "s", "t", "e", "m", "3", "2", "\\", "C", "o", "n", "f", "i", "g", "\\",
                  "S", "A", "M">>
NameInSoftwareDir == <<"C", ":", "\\", "s", "o", "f", "t", "w", "a", "r", "e", "\\",
                       "d", "e", "f", "a", "u", "l", "t">>
NameBoth     == <<"C", ":", "\\", "b", "a", "k", "\\", "s", "o", "f", "t", "w", "a", "r", "e",
                  "_", "N", "T", "U", "S", "E", "R", ".", "D", "A", "T">>
NameRootUser == <<"\\", "R", "E", "G", "I", "S", "T", "R", "Y", "\\", "U", "S", "E", "R", "\\",
                  "S", "-", "1", "-", "5", "-", "2", "1">>
NameRootSoftware == <<"\\", "R", "E", "G", "I", "S", "T", "R", "Y", "\\",
                      "M", "A", "C", "H", "I", "N", "E", "\\", "S", "O", "F", "T", "W", "A", "R", "E">>

RunKey(time, vals) == [Name |-> "Run", LastWriteTime |-> time, values |-> vals, subkeys |-> {}]

\* Two hive contents; both have a key at a path of each list, written at the
\* same times
RootA == [valid |-> TRUE, keys |->
    (SOFTWARE_RUN_KEYS[1] :> RunKey(1, {[Name |-> "MyApp", data |-> CmdApp]}))
    @@ (SOFTWARE_RUN_KEYS[2] :> RunKey(3, {[Name |-> "Once", data |-> <<NUL>>]}))
    @@ (NTUSER_RUN_KEYS[1] :> RunKey(2, {[Name |-> "Updater", data |-> RefEvil]}))]
RootB == [valid |-> TRUE, keys |->
    (SOFTWARE_RUN_KEYS[1] :> RunKey(1, {[Name |-> "Agent", data |-> RefQuoted]}))
    @@ (NTUSER_RUN_KEYS[1] :> RunKey(2, {[Name |-> "Agent", data |-> RefQuoted]}))]

CmHive(full, user, rootpath, root) ==
    [FileFullPath |-> full, FileUserName |-> user, HiveRootPath |-> rootpath, root |-> root]

CmHives ==
    { CmHive(<<>>, NameNtUser, NameRootUser, RootA),
      CmHive(NameSoftware, <<>>, NameRootSoftware, RootA),
      CmHive(NameSoftware, <<>>, NameRootSoftware, RootB),
      CmHive(NameSoftware, <<>>, NameRootSoftware, NoneRoot),
      CmHive(NameSystem, <<>>, <<>>, RootA),
      CmHive(NameSam, <<>>, <<>>, RootA),
      CmHive(NameInSoftwareDir, <<>>, <<>>, RootA),
      CmHive(NameBoth, <<>>, <<>>, RootB),
      CmHive(<<>>, <<>>, NameRootSoftware, RootB),
      CmHive(<<>>, <<>>, None, RootA) }

RECURSIVE SeqsUpTo(_, _)
SeqsUpTo(S, n) ==
    IF n = 0 THEN {<<>>}
    ELSE LET prev == SeqsUpTo(S, n - 1)
         IN  prev \cup {Append(q, x) : q \in prev, x \in S}

RunTaskLists ==
    { <<>>, (1234 :> [Peb |-> TRUE, CommandLine |-> CmdApp, modules |-> <<DllEvil>>]) }

RunConfigs ==
    [VERBOSE : {FALSE}, HIVE_OFFSET : {NoOffset, 16}, ASEP_TYPE : {None, <<"autoruns">>}]

InitRun ==
    /\ pc = "init"
    /\ raised = "none"
    /\ config \in RunConfigs
    /\ tasks \in RunTaskLists
    /\ process_dict = <<>> /\ module = None /\ pids = {}
    /\ key = <<>> /\ results = <<>>
    /\ hive_offsets \in SeqsUpTo(Offsets, MaxHiveList)
    /\ cmhives \in [{hive_offsets[i] : i \in 1..Len(hive_offsets)} -> CmHives]
    /\ todo = EmptyBag /\ hives = <<>>
    /\ ntuser_hive_roots = <<>> /\ software_hive_root = NoRoot
    /\ system_hive_root = NoRoot /\ opened = EmptyBag /\ searched = EmptyBag
    /\ autoruns = <<>>
    /\ IdlePaths /\ IdleReg

\* get_autoruns up to its loop, when calculate() calls it
GetAutoruns ==
    /\ pc = "ready"
    /\ IF "autoruns" \in AsepList(config)
       THEN /\ todo' = OffsetSet(hive_offsets)
            /\ pc' = "autoruns"
       ELSE /\ todo' = todo
            /\ pc' = "services"
    /\ hives' = <<>>
    /\ ntuser_hive_roots' = <<>>
    /\ software_hive_root' = NoRoot
    /\ system_hive_root' = NoRoot
    /\ UNCHANGED <<raised, config, pathVars, pidVars, hive_offsets, cmhives, opened,
                   searched, autoruns, regVars>>

\* One iteration of `for hoff in set(hive_offsets)`; the order is the set's
ScanHive ==
    /\ pc = "autoruns"
    /\ \E hoff \in BagToSet(todo) :
          LET name  == hive_name(cmhives[hoff])
              root  == cmhives[hoff].root
              class == Classify(name)
          IN  /\ todo' = todo (-) SetToBag({hoff})
              /\ opened' = opened (+) SetToBag({hoff})
              /\ IF ~root.valid
                 THEN \* debug.error() ends the process
                      /\ IF config.HIVE_OFFSET # NoOffset
                         THEN pc' = "exit" /\ raised' = "SystemExit"
                         ELSE UNCHANGED <<pc, raised>>
                      /\ UNCHANGED <<hives, ntuser_hive_roots, software_hive_root,
                                     system_hive_root, searched>>
                 ELSE /\ ntuser_hive_roots' =
                            IF class = "NtUserHive" THEN Append(ntuser_hive_roots, hoff)
                            ELSE ntuser_hive_roots
                      /\ software_hive_root' =
                            IF class = "SoftwareHive" THEN hoff ELSE software_hive_root
                      /\ system_hive_root' =
                            IF class = "SystemHive" THEN hoff ELSE system_hive_root
                      /\ IF KeysFor(class) = "none"
                         THEN UNCHANGED <<hives, searched>>
                         ELSE /\ hives' = SearchKeys(hives, name, root, process_dict,
                                                     KeyList(KeysFor(class)), 1)
                              /\ searched' = searched (+) SetToBag({<<hoff, KeysFor(class)>>})
                      /\ UNCHANGED <<pc, raised>>
    /\ UNCHANGED <<config, pathVars, pidVars, hive_offsets, cmhives, autoruns, regVars>>

\* get_autoruns returns hives, calculate() stores it
GetAutorunsReturn ==
    /\ pc = "autoruns"
    /\ todo = EmptyBag
    /\ autoruns' = hives
    /\ pc' = "services"
    /\ UNCHANGED <<raised, config, pathVars, pidVars, hive_offsets, cmhives, todo, hives,
                   ntuser_hive_roots, software_hive_root, system_hive_root, opened,
                   searched, regVars>>

NextRun == GetDllList \/ GetAutoruns \/ ScanHive \/ GetAutorunsReturn

SpecRun == InitRun /\ [][NextRun]_vars

\* The entries of the hive list
ListOffsets == {hive_offsets[i] : i \in 1..Len(hive_offsets)}

\* get_autoruns has returned to calculate()
AutorunsReturned == pc = "services" /\ "autoruns" \in AsepList(config)

\* C9: however many entries of the hive list have the same offset, the hive
\* at that offset is opened at most once, classified and searched at most
\* once, and exactly once when get_autoruns returns; the output holds each
\* entry of a (hive name, key path) once, and one entry for a value name.
C9_OncePerOffset ==
    /\ \A h \in BagToSet(opened) : CopiesIn(h, opened) = 1 /\ h \in ListOffsets
    /\ \A h \in ListOffsets :
          /\ CopiesIn(<<h, "NTUSER_RUN_KEYS">>, searched)
                + CopiesIn(<<h, "SOFTWARE_RUN_KEYS">>, searched) <= 1
          /\ Cardinality({i \in 1..Len(ntuser_hive_roots) : ntuser_hive_roots[i] = h}) <= 1
    /\ AutorunsReturned => \A h \in ListOffsets : CopiesIn(h, opened) = 1
    /\ \A n \in DOMAIN hives : \A k \in DOMAIN hives[n] :
          \A e, f \in BagToSet(hives[n][k]) :
              /\ CopiesIn(e, hives[n][k]) = 1
              /\ e[1] = f[1] => e = f

\* A list with two entries of one offset, whose hive gave an entry
C9_Witness ==
    /\ AutorunsReturned
    /\ \E i, j \in 1..Len(hive_offsets) :
          /\ i # j
          /\ hive_offsets[i] = hive_offsets[j]
          /\ CopiesIn(hive_offsets[i], opened) = 1
          /\ \E l \in {"NTUSER_RUN_KEYS", "SOFTWARE_RUN_KEYS"} :
                CopiesIn(<<hive_offsets[i], l>>, searched) = 1
    /\ autoruns # <<>>

\* The lower-cased trailing component of the name of the hive at offset h
ComponentAt(h) == Lower(LastField(hive_name(cmhives[h]), "\\"))
IsNtUser(c)   == Contains(c, StrNtuserDat)
IsSoftware(c) == ~Contains(c, StrNtuserDat) /\ Contains(c, StrSoftware)
IsSystem(c)   == ~Contains(c, StrNtuserDat) /\ ~Contains(c, StrSoftware)
                 /\ Contains(c, StrSystem)

\* C10: a hive with a root, once iterated, is treated by the lower-cased
\* trailing component of its name alone: searched with the per-user list
\* exactly when the component contains 'ntuser.dat', with the machine-wide
\* list exactly when it does not and contains 'software', kept as the
\* system root only when it contains neither and contains 'system', and not
\* searched otherwise; every entry of the output is under the name of an
\* NTUSER.DAT hive at a per-user path or of a software hive at a
\* machine-wide path.
C10_Classification ==
    /\ \A h \in BagToSet(opened) :
          cmhives[h].root.valid =>
             /\ CopiesIn(<<h, "NTUSER_RUN_KEYS">>, searched) =
                   (IF IsNtUser(ComponentAt(h)) THEN 1 ELSE 0)
             /\ CopiesIn(<<h, "SOFTWARE_RUN_KEYS">>, searched) =
                   (IF IsSoftware(ComponentAt(h)) THEN 1 ELSE 0)
             /\ (\E i \in 1..Len(ntuser_hive_roots) : ntuser_hive_roots[i] = h)
                   <=> IsNtUser(ComponentAt(h))
             /\ software_hive_root = h => IsSoftware(ComponentAt(h))
             /\ system_hive_root = h => IsSystem(ComponentAt(h))
             /\ IsSoftware(ComponentAt(h)) => software_hive_root # NoRoot
             /\ IsSystem(ComponentAt(h)) => system_hive_root # NoRoot
    /\ \A e \in BagToSet(searched) :
          e[1] \in BagToSet(opened) /\ cmhives[e[1]].root.valid
    /\ \A n \in DOMAIN hives : \A k \in DOMAIN hives[n] :
          LET c == Lower(LastField(n, "\\"))
          IN  \/ IsNtUser(c) /\ \E i \in 1..Len(NTUSER_RUN_KEYS) : NTUSER_RUN_KEYS[i] = k[1]
              \/ IsSoftware(c) /\ \E i \in 1..Len(SOFTWARE_RUN_KEYS) : SOFTWARE_RUN_KEYS[i] = k[1]

\* A hive whose name has both 'software' and 'ntuser.dat' in its trailing
\* component was searched with the per-user list, and a hive with 'software'
\* in a directory of its name only was not searched
C10_Witness ==
    /\ AutorunsReturned
    /\ \E h, g \in BagToSet(opened) :
          /\ hive_name(cmhives[h]) = NameBoth
          /\ CopiesIn(<<h, "NTUSER_RUN_KEYS">>, searched) = 1
          /\ NameBoth \in DOMAIN autoruns
          /\ hive_name(cmhives[g]) = NameInSoftwareDir
          /\ cmhives[g].root.valid
          /\ \A l \in {"NTUSER_RUN_KEYS", "SOFTWARE_RUN_KEYS"} :
                CopiesIn(<<g, l>>, searched) = 0

\* The key list a hive with a root is searched with, by its name's trailing
\* component; empty for a hive that is not searched
ListAt(h) ==
    IF ~cmhives[h].root.valid THEN <<>>
    ELSE IF IsNtUser(ComponentAt(h)) THEN NTUSER_RUN_KEYS
    ELSE IF IsSoftware(ComponentAt(h)) THEN SOFTWARE_RUN_KEYS
    ELSE <<>>

\* C12: the grouped result does not depend on the traversal order: when
\* get_autoruns returns, whatever the order was, the result holds for every
\* searched hive and every key of its list with entries those very entries
\* under the hive's name and (key path, last-write time); no entry of a hive
\* is replaced or lost because of another hive.
C12_PerHiveEntriesKept ==
    AutorunsReturned =>
       \A h \in ListOffsets : \A i \in 1..Len(ListAt(h)) :
          LET k   == open_key(cmhives[h].root, ListAt(h)[i])
              res == parse_autoruns_key(process_dict, k)
              n   == hive_name(cmhives[h])
              at  == <<ListAt(h)[i], k.LastWriteTime>>
          IN  BagCardinality(res) > 0 =>
                 /\ n \in DOMAIN autoruns
                 /\ at \in DOMAIN autoruns[n]
                 /\ autoruns[n][at] = res

----------------------------------------------------------------------------
(* calculate() with the services alone: get_dll_list, then get_services on *)
(* the subkeys of <ControlSet>\Services                                    *)

MaxServices == 1    \* service keys of a list of any content

ImgSpooler == <<"C", ":", "\\", "W", "i", "n", "d", "o", "w", "s", "\\", "S", "y", "s", "t",
                "e", "m", "3", "2", "\\", "s", "p", "o", "o", "l", "s", "v", ".", "e", "x", "e">>
ImgSvchost == <<"C", ":", "\\", "T", "o", "o", "l", "s", "\\", "s", "v", "c", "h", "o", "s", "t",
                ".", "e", "x", "e", " ", "-", "k", " ", "e", "v", "i", "l">>
StrPrintSpooler == <<"P", "r", "i", "n", "t", " ", "S", "p", "o", "o", "l", "e", "r">>
StrMain == <<"M", "a", "i", "n">>

\* The last-write times of the keys of the inputs
KeyTimes == [service |-> 10, parameters |-> 20, winlogon |-> 30, notify |-> 40]

ServiceNames == <<"Spooler", "Netman", "Dhcp", "Themes">>

\* The text of the Start value; None for a key without one
StartTexts == {None, <<"0">>, <<"2">>, <<"3">>, <<"4">>, <<"x">>}

OtherFields(display, type, image, hasParameters, parameters) ==
    [DisplayName |-> display, Type |-> type, ImagePath |-> image,
     HasParameters |-> hasParameters, Parameters |-> parameters]

ParamDllMain == {[Name |-> "ServiceDll", data |-> RefEvil], [Name |-> "ServiceMain", data |-> StrMain]}
ParamDll     == {[Name |-> "ServiceDll", data |-> RefEvil]}
ParamOther   == {[Name |-> "ServiceMain", data |-> StrMain]}

\* The other fields of a service key; None for a value that is not there
Others ==
    { OtherFields(None, None, None, FALSE, {}),
      OtherFields(StrPrintSpooler, <<"3", "2">>, ImgSpooler, FALSE, {}),
      OtherFields(None, <<"1", "6">>, CmdApp, FALSE, {}),
      OtherFields(None, <<"3", "2">>, ImgSvchost, TRUE, ParamDllMain),
      OtherFields(None, <<"3", "2">>, ImgSvchost, TRUE, ParamDll),
      OtherFields(None, <<"3", "2">>, ImgSvchost, TRUE, ParamOther),
      OtherFields(None, <<"3", "2">>, ImgSvchost, FALSE, {}),
      OtherFields(None, <<"3", "2">>, CmdApp, TRUE, ParamDll),
      OtherFields(None, <<"3">>, CmdApp, FALSE, {}),
      OtherFields(None, <<"x">>, CmdApp, FALSE, {}) }

ServiceKey(name, start, o) ==
    [Name |-> name, LastWriteTime |-> KeyTimes.service,
     values |-> {v \in {[Name |-> "Start", data |-> start],
                        [Name |-> "DisplayName", data |-> o.DisplayName],
                        [Name |-> "Type", data |-> o.Type],
                        [Name |-> "ImagePath", data |-> o.ImagePath]} : v.data # None},
     subkeys |-> IF o.HasParameters
                 THEN {[Name |-> "Parameters", LastWriteTime |-> KeyTimes.parameters,
                        values |-> o.Parameters, subkeys |-> {}]}
                 ELSE {}]

\* The lists of at most n service keys, the i-th named ServiceNames[i]
ServiceListsUpTo(n, Starts, Fields) ==
    UNION {{[i \in 1..m |-> ServiceKey(ServiceNames[i], f[i][1], f[i][2])] :
               f \in [1..m -> Starts \X Fields]} : m \in 0..n}

\* An auto-start service followed by a manual or a disabled one
MixedServiceLists ==
    {<<ServiceKey(ServiceNames[1], <<"2">>, o), ServiceKey(ServiceNames[2], s, p)>> :
        o \in Others, s \in {<<"3">>, <<"4">>}, p \in Others}

ServiceLists == ServiceListsUpTo(MaxServices, StartTexts, Others) \cup MixedServiceLists

NoReg == [services |-> <<>>, appinit |-> None, winlogon |-> NoneKey, notify |-> <<>>]

InitSvc ==
    /\ pc = "init"
    /\ raised = "none"
    /\ config \in [VERBOSE : BOOLEAN, HIVE_OFFSET : {NoOffset}, ASEP_TYPE : {<<"services">>}]
    /\ tasks \in RunTaskLists
    /\ process_dict = <<>> /\ module = None /\ pids = {}
    /\ key = <<>> /\ results = <<>>
    /\ reg \in [services : ServiceLists, appinit : {NoReg.appinit},
                winlogon : {NoReg.winlogon}, notify : {NoReg.notify}]
    /\ services = <<>> /\ appinit_dlls = <<>> /\ winlogon = <<>>
    /\ winlogon_registrations = <<>>
    /\ IdlePaths /\ IdleRun

\* calculate(): self.services = self.get_services(), when 'services' is asked
GetServices ==
    /\ pc = "services"
    /\ IF "services" \in AsepList(config)
       THEN LET r == get_services(process_dict, config, reg.services)
            IN  /\ raised' = r.exc
                /\ IF r.exc = "none"
                   THEN services' = r.val /\ pc' = "appinit"
                   ELSE services' = services /\ pc' = "raised"
       ELSE /\ pc' = "appinit"
            /\ UNCHANGED <<raised, services>>
    /\ UNCHANGED <<config, pathVars, pidVars, runVars, reg, appinit_dlls, winlogon,
                   winlogon_registrations>>

NextSvc == GetDllList \/ GetAutoruns \/ GetServices

SpecSvc == InitSvc /\ [][NextSvc]_vars

\* The text of the Start value of a service key, None without one
StartOf(k) ==
    IF \E v \in k.values : v.Name = "Start"
    THEN (CHOOSE v \in k.values : v.Name = "Start").data
    ELSE None

\* The service keys a record of the output was made from
KeysOf(service) ==
    {j \in 1..Len(reg.services) : reg.services[j].Name = service[1]}

\* C5: every record of the Service Extractor's output comes from a service
\* key whose Start value is 0, 1 or 2, and a key whose Start is 3 (Manual) or
\* 4 (Disabled) has no record in the output, whatever its other fields and
\* in verbose and in non-verbose mode.
C5_OnlyAutoStart ==
    /\ \A i \in 1..Len(services) :
          /\ KeysOf(services[i]) # {}
          /\ \A j \in KeysOf(services[i]) :
                StartOf(reg.services[j]) \in {<<"0">>, <<"1">>, <<"2">>}
    /\ \A j \in 1..Len(reg.services) :
          StartOf(reg.services[j]) \in {<<"3">>, <<"4">>}
             => \A i \in 1..Len(services) : services[i][1] # reg.services[j].Name

\* get_services has returned a list with the record of an auto-start service
\* and without a record of the manual svchost service, with a Parameters
\* subkey and a ServiceDll, that follows it
C5_Witness ==
    /\ pc = "appinit" /\ raised = "none"
    /\ Len(reg.services) = 2
    /\ StartOf(reg.services[1]) = <<"2">>
    /\ StartOf(reg.services[2]) = <<"3">>
    /\ [Name |-> "ImagePath", data |-> ImgSvchost] \in reg.services[2].values
    /\ \E sub \in reg.services[2].subkeys : sub.values = ParamDllMain
    /\ Len(services) = 1
    /\ services[1][1] = reg.services[1].Name

\* The data of the value of a key with the given name, None without one
ValueOf(k, name) ==
    IF \E v \in k.values : v.Name = name
    THEN (CHOOSE v \in k.values : v.Name = name).data
    ELSE None

\* The image path of a service key as its record shows it
ImagePathOf(k) ==
    IF ValueOf(k, "ImagePath") = None THEN StrUnknown
    ELSE StripNul(ValueOf(k, "ImagePath"))

\* The Parameters subkeys of a service key
ParameterKeys(k) == {sub \in k.subkeys : sub.Name = "Parameters"}

\* The image path has the svchost marker and a Parameters subkey defines
\* ServiceDll
DelegatesToServiceDll(k) ==
    /\ Contains(ImagePathOf(k), StrSvchostK)
    /\ \E sub \in ParameterKeys(k) : ValueOf(sub, "ServiceDll") # None

\* C11: the record of a retained service has the Parameters subkey's
\* last-write time, and the pids of the subkey's ServiceDll, if and only if
\* the image path contains 'svchost.exe -k' and a Parameters subkey exists
\* and defines ServiceDll; in every other case it has the service key's own
\* last-write time and the pids of the image path.  Its image path is always
\* the service key's.
C11_ServiceDllSupersedes ==
    \A i \in 1..Len(services) : \A j \in KeysOf(services[i]) :
       LET k == reg.services[j]
       IN  /\ services[i][6] = ImagePathOf(k)
           /\ IF DelegatesToServiceDll(k)
              THEN \E sub \in ParameterKeys(k) :
                      /\ services[i][2] = sub.LastWriteTime
                      /\ services[i][8] =
                            find_pids_for_imagepath(process_dict,
                                                    ValueOf(sub, "ServiceDll")).val
              ELSE /\ services[i][2] = k.LastWriteTime
                   /\ services[i][8] =
                         find_pids_for_imagepath(process_dict, ImagePathOf(k)).val

----------------------------------------------------------------------------
(* calculate(): get_dll_list, then the extractors asep_list names, in the  *)
(* order of the code; an exception of an extractor leaves calculate()      *)

MaxNotify == 1    \* subkeys of Winlogon\Notify

StrAppInit     == <<"a", ".", "d", "l", "l", " ", "b", ".", "d", "l", "l", NUL>>
StrADll        == <<"a", ".", "d", "l", "l">>
StrBDll        == <<"b", ".", "d", "l", "l">>
StrCrypt32     == <<"c", "r", "y", "p", "t", "3", "2", ".", "d", "l", "l">>
StrCrypt32Nul  == <<"c", "r", "y", "p", "t", "3", "2", ".", "d", "l", "l", NUL>>
StrCrypt32Caps == <<"C", ":", "\\", "W", "I", "N", "D", "O", "W", "S", "\\", "s", "y", "s", "t",
                    "e", "m", "3", "2", "\\", "C", "R", "Y", "P", "T", "3", "2", ".", "D", "L", "L">>
StrEvilDll     == <<"C", ":", "\\", "W", "i", "n", "d", "o", "w", "s", "\\",
                    "e", "v", "i", "l", ".", "d", "l", "l">>
ValDllName     == <<"D", "l", "l", "N", "a", "m", "e">>
ValDLLName     == <<"D", "L", "L", "N", "a", "m", "e">>
ValLogon       == <<"L", "o", "g", "o", "n">>
StrOnLogon     == <<"O", "n", "L", "o", "g", "o", "n">>
StrExplorer    == <<"E", "x", "p", "l", "o", "r", "e", "r", ".", "e", "x", "e">>

\* The AppInit_DLLs value as reg_get_value gives it; None when it is not there
AppInitValues == {None, <<>>, <<NUL>>, StrAppInit, StrADll}

WinlogonKeys ==
    { NoneKey,
      [Name |-> "Winlogon", LastWriteTime |-> KeyTimes.winlogon,
       values |-> {[Name |-> "Shell", data |-> StrExplorer],
                   [Name |-> "Userinit", data |-> CmdApp],
                   [Name |-> "DefaultUserName", data |-> StrADll]},
       subkeys |-> {}] }

NotifyValueSets ==
    { {[Name |-> ValDllName, data |-> StrCrypt32]},
      {[Name |-> ValDllName, data |-> StrCrypt32Nul]},
      {[Name |-> ValDLLName, data |-> StrCrypt32Caps]},
      {[Name |-> ValDllName, data |-> StrEvilDll], [Name |-> ValLogon, data |-> StrOnLogon]},
      {[Name |-> ValLogon, data |-> StrOnLogon]} }

NotifyNames == <<"crypt32", "evil", "other">>

\* The lists of at most MaxNotify subkeys of Winlogon\Notify
NotifyLists ==
    UNION {{[i \in 1..m |-> [Name |-> NotifyNames[i], LastWriteTime |-> KeyTimes.notify,
                             values |-> f[i], subkeys |-> {}]] :
               f \in [1..m -> NotifyValueSets]} : m \in 0..MaxNotify}

\* The service lists of the whole scan: one key, with a Start value of 2 or
\* without one
CalcServiceLists == ServiceListsUpTo(MaxServices, {None, <<"2">>}, Others)

CalcOffsets == {<<>>, <<16, 32, 16>>}

CalcHives ==
    (16 :> CmHive(<<>>, NameNtUser, NameRootUser, RootA))
    @@ (32 :> CmHive(NameSoftware, <<>>, NameRootSoftware, RootA))

CalcTasks == (1234 :> [Peb |-> TRUE, CommandLine |-> CmdApp, modules |-> <<DllEvil>>])

Init ==
    /\ pc = "init"
    /\ raised = "none"
    /\ config \in [VERBOSE : BOOLEAN, HIVE_OFFSET : {NoOffset},
                   ASEP_TYPE : {None, <<"appinit", "winlogon">>}]
    /\ tasks = CalcTasks
    /\ process_dict = <<>> /\ module = None /\ pids = {}
    /\ key = <<>> /\ results = <<>>
    /\ hive_offsets \in CalcOffsets
    /\ cmhives = [h \in {hive_offsets[i] : i \in 1..Len(hive_offsets)} |-> CalcHives[h]]
    /\ todo = EmptyBag /\ hives = <<>>
    /\ ntuser_hive_roots = <<>> /\ software_hive_root = NoRoot
    /\ system_hive_root = NoRoot /\ opened = EmptyBag /\ searched = EmptyBag
    /\ autoruns = <<>>
    /\ reg \in [services : CalcServiceLists, appinit : AppInitValues,
                winlogon : WinlogonKeys, notify : NotifyLists]
    /\ services = <<>> /\ appinit_dlls = <<>> /\ winlogon = <<>>
    /\ winlogon_registrations = <<>>
    /\ IdlePaths

\* calculate(): self.appinit_dlls = self.get_appinit_dlls(), when 'appinit'
\* is asked
GetAppinitDlls ==
    /\ pc = "appinit"
    /\ IF "appinit" \in AsepList(config)
       THEN LET r == get_appinit_dlls(reg.appinit)
            IN  /\ raised' = r.exc
                /\ IF r.exc = "none"
                   THEN appinit_dlls' = r.val /\ pc' = "winlogon"
                   ELSE appinit_dlls' = appinit_dlls /\ pc' = "raised"
       ELSE /\ pc' = "winlogon"
            /\ UNCHANGED <<raised, appinit_dlls>>
    /\ UNCHANGED <<config, pathVars, pidVars, runVars, reg, services, winlogon,
                   winlogon_registrations>>

\* calculate(): self.winlogon = self.get_winlogon(), when 'winlogon' is asked
GetWinlogon ==
    /\ pc = "winlogon"
    /\ IF "winlogon" \in AsepList(config)
       THEN /\ winlogon' = get_winlogon(process_dict, reg.winlogon)
            /\ pc' = "notify"
       ELSE /\ winlogon' = winlogon
            /\ pc' = "done"
    /\ UNCHANGED <<raised, config, pathVars, pidVars, runVars, reg, services,
                   appinit_dlls, winlogon_registrations>>

\* calculate(): self.winlogon_registrations = self.get_winlogon_registrations()
GetWinlogonRegistrations ==
    /\ pc = "notify"
    /\ LET r == get_winlogon_registrations(process_dict, config, reg.notify)
       IN  /\ raised' = r.exc
           /\ IF r.exc = "none"
              THEN winlogon_registrations' = r.val /\ pc' = "done"
              ELSE winlogon_registrations' = winlogon_registrations /\ pc' = "raised"
    /\ UNCHANGED <<config, pathVars, pidVars, runVars, reg, services, appinit_dlls,
                   winlogon>>

Next ==
    \/ GetDllList
    \/ GetAutoruns
    \/ ScanHive
    \/ GetAutorunsReturn
    \/ GetServices
    \/ GetAppinitDlls
    \/ GetWinlogon
    \/ GetWinlogonRegistrations

Spec == Init /\ [][Next]_vars

\* C6: no failure inside an extractor aborts the scan: no exception leaves
\* calculate(), and once calculate() is over every service key with an
\* auto-start Start value has its record, a missing or unreadable kind being
\* shown as "Unknown".
C6_NoExtractorAbortsTheScan ==
    /\ raised = "none"
    /\ pc # "raised"
    /\ (pc = "done" /\ config.VERBOSE /\ "services" \in AsepList(config))
          => \A j \in 1..Len(reg.services) :
                StartOf(reg.services[j]) = <<"2">>
                   => \E i \in 1..Len(services) : services[i][1] = reg.services[j].Name

\* get_appinit_dlls has returned to calculate()
AppInitReturned ==
    /\ "appinit" \in AsepList(config)
    /\ pc \in {"winlogon", "notify", "done"} \/ raised = "UnboundLocalError"

\* C7: get_appinit_dlls returns the fields, in their order, of the
\* AppInit_DLLs value without its NUL characters split on spaces, and the
\* empty list when the value is empty.
C7_AppInitList ==
    AppInitReturned =>
       /\ reg.appinit # <<>> => appinit_dlls = Split(StripNul(reg.appinit), " ")
       /\ reg.appinit = <<>> => appinit_dlls = <<>>

\* get_winlogon_registrations was called and is over
RegistrationsOver ==
    "winlogon" \in AsepList(config) /\ (pc = "done" \/ raised = "UnboundLocalError")

\* C8: in non-verbose mode no emitted registration has a DLL name whose
\* trailing path component is, whatever its casing, a known-benign DLL; in
\* verbose mode every subkey of Notify has its entry.
C8_KnownDllsSuppressed ==
    /\ ~config.VERBOSE =>
          \A i \in 1..Len(winlogon_registrations) :
             Lower(LastField(winlogon_registrations[i][1], "\\"))
                \notin WINLOGON_REGISTRATION_KNOWN_DLLS
    /\ (config.VERBOSE /\ RegistrationsOver) =>
          Len(winlogon_registrations) = Len(reg.notify)

====
